---- MODULE Spec2Model ----
(***************************************************************************)
(* AutoMarket: the commission resolver (CommissionSetting, Commission),    *)
(* the transaction lifecycle (Transaction, Vehicle), the user cache of     *)
(* authMiddleware (User, Redis) and the paginator of the backend.          *)
(*                                                                         *)
(* Rows of a table are records; a table is a set of rows or a function     *)
(* from ids to rows.  An optional column (undefined / NULL) holds the      *)
(* empty set when absent and a one-element set when present.  JavaScript   *)
(* numbers are modelled as exact non-negative rationals with the two       *)
(* non-finite results a division by zero can produce.                      *)
(***************************************************************************)
EXTENDS Integers, Sequences, FiniteSets, TLC

VARIABLES
    settings,       \* table commission_settings: a set of rows
    users,          \* table users: id -> row
    vehicles,       \* table vehicles: id -> row
    transactions,   \* table transactions: id -> row
    commissions,    \* table commissions: a sequence of rows, in insertion order
    last,           \* the last call made, its arguments, what it saw and returned
    cache,          \* Redis: the user:<id> keys and the set blacklisted_tokens
    clock,          \* the time, in seconds
    requests,       \* the requests in flight: what each has loaded and where it is
    conversations,  \* table conversations: id -> row
    messages,       \* table messages: id -> row
    favorites,      \* table favorites: the set of its rows
    favorites_count \* column favorites_count of table vehicles: id -> number

vars == <<settings, users, vehicles, transactions, commissions, last,
          cache, clock, requests,
          conversations, messages, favorites, favorites_count>>

\* The tables of the conversations and of the favorites
engagement == <<conversations, messages, favorites, favorites_count>>

\* ------------------------------------------------------------------ bounds
\* rows of commission_settings in the resolver's runs
MaxSettings == 2
\* vehicles listed and transactions inserted in the runs of one sale
MaxVehicles == 1
MaxTransactions == 1
\* commission rows inserted
MaxCommissions == 2
\* transactions inserted in the runs of several offers on the listings
MaxOffers == 2

\* requests in flight in the runs of interleaved lifecycle calls
MaxRequests == 2
\* steps of the clock in the runs of the cache
MaxTicks == 3
MaxConversations == 1
MaxMessages == 2
MaxToggles == 3

\* --------------------------------------------------------------- constants
NULL == "null"
None == {}
Some(x) == {x}
IsAbsent(o) == o = {}
The(o) == CHOOSE x \in o : TRUE

\* JavaScript truthiness of an optional number: undefined, null and 0 are falsy.
TruthyNum(o) == o # {} /\ The(o) # 0

\* enum UserRole
UserRole == {"buyer", "seller", "dealer", "admin"}
\* enum CommissionType
CommissionType == {"percentage", "fixed"}
\* enum VehicleStatus
VehicleStatus == {"available", "reserved", "sold", "inactive"}
\* enum TransactionStatus
TransactionStatus == {"pending", "processing", "completed", "cancelled", "refunded"}

\* The literal 0.05 and the percentage 5 of the default commission; the divisor 100.
DefaultPercentage == 5
Hundred == 100

\* The time-to-live authMiddleware gives a cached user, in seconds, and the
\* seconds one step of the clock takes.
UserCacheTTL == 300
TickSeconds == 100

\* ------------------------------------------------------------- arithmetic
RECURSIVE GCD(_, _)
GCD(a, b) == IF b = 0 THEN a ELSE GCD(b, a % b)

Fin(n, d) == LET g == GCD(n, d) IN [k |-> "fin", n |-> n \div g, d |-> d \div g]
Num(i) == [k |-> "fin", n |-> i, d |-> 1]
Infinity == [k |-> "inf", n |-> 0, d |-> 1]
NaN == [k |-> "nan", n |-> 0, d |-> 1]
IsZero(a) == a.k = "fin" /\ a.n = 0

\* a * b on non-negative JavaScript numbers
Times(a, b) ==
    IF a.k = "nan" \/ b.k = "nan" THEN NaN
    ELSE IF a.k = "inf" \/ b.k = "inf"
         THEN IF IsZero(a) \/ IsZero(b) THEN NaN ELSE Infinity
         ELSE Fin(a.n * b.n, a.d * b.d)

\* a / b on non-negative JavaScript numbers
Over(a, b) ==
    IF a.k = "nan" \/ b.k = "nan" THEN NaN
    ELSE IF a.k = "inf" THEN IF b.k = "inf" THEN NaN ELSE Infinity
    ELSE IF b.k = "inf" THEN Num(0)
    ELSE IF b.n = 0 THEN IF a.n = 0 THEN NaN ELSE Infinity
    ELSE Fin(a.n * b.d, a.d * b.n)

\* ------------------------------------------------------ CommissionSetting
\* appliesToPrice: each bound is tested for truthiness before it is compared.
appliesToPrice(s, price) ==
    IF TruthyNum(s.min_price) /\ price < The(s.min_price) THEN FALSE
    ELSE IF TruthyNum(s.max_price) /\ price > The(s.max_price) THEN FALSE
    ELSE TRUE

\* A variant of appliesToRole that forgets the role constraint.
appliesToRole_AnyRole(s, role) == TRUE

\* A variant of appliesToRole that lets a rule for a role apply when no role
\* is passed.
appliesToRole_AbsentRoleMatches(s, role) ==
    IF s.user_role = NULL \/ role = NULL THEN TRUE ELSE s.user_role = role

\* appliesToRole: role is NULL when the caller passes undefined.
appliesToRole(s, role) ==
    IF s.user_role = NULL THEN TRUE ELSE s.user_role = role

\* calculateAmount
calculateAmount(s, price) ==
    IF s.type = "percentage"
    THEN Times(Num(price), Over(Num(s.value), Num(Hundred)))
    ELSE Num(s.value)

\* A variant of the ordering that leaves out .orderBy('created_at', 'asc').
OrderedBefore_PriorityOnly(a, b) == a.priority > b.priority

\* .orderBy('priority', 'desc').orderBy('created_at', 'asc')
OrderedBefore(a, b) ==
    \/ a.priority > b.priority
    \/ a.priority = b.priority /\ a.created_at < b.created_at

RECURSIVE Orderings(_)
Orderings(S) ==
    IF S = {} THEN {<<>>}
    ELSE UNION {{<<x>> \o p : p \in Orderings(S \ {x})} : x \in S}

IsOrdered(q) ==
    \A i, j \in 1..Len(q) : i < j => ~OrderedBefore(q[j], q[i])

\* The row lists the query of findActive / findApplicable can return: the active
\* rows in an order that respects the ORDER BY (rows equal in both keys come in
\* an order the database chooses).
findActive(table) ==
    {q \in Orderings({s \in table : s.is_active}) : IsOrdered(q)}

\* The for loop of findApplicable over one list of rows.
RECURSIVE FirstApplicable(_, _, _)
FirstApplicable(q, price, role) ==
    IF q = <<>> THEN None
    ELSE IF appliesToPrice(Head(q), price) /\ appliesToRole(Head(q), role)
         THEN Some(Head(q))
         ELSE FirstApplicable(Tail(q), price, role)

\* findApplicable: the settings it can return (None is undefined).
findApplicable(table, price, role) ==
    {FirstApplicable(q, price, role) : q \in findActive(table)}

\* ------------------------------------------------------------- Commission
\* A variant of calculateCommission that takes every rule's value as a percentage.
calculateCommissionWith_AllPercentage(setting, price) ==
    IF IsAbsent(setting)
    THEN [amount |-> Times(Num(price), Fin(DefaultPercentage, Hundred)),
          percentage |-> Num(DefaultPercentage),
          settingId |-> None]
    ELSE LET s == The(setting)
             amount == Times(Num(price), Over(Num(s.value), Num(Hundred)))
         IN [amount |-> amount, percentage |-> Num(s.value), settingId |-> Some(s.id)]

\* A variant of calculateCommission that reports a fixed rule's value as its
\* percentage.
calculateCommissionWith_ValueAsPercentage(setting, price) ==
    IF IsAbsent(setting)
    THEN [amount |-> Times(Num(price), Fin(DefaultPercentage, Hundred)),
          percentage |-> Num(DefaultPercentage),
          settingId |-> None]
    ELSE LET s == The(setting)
             amount == IF s.type = "percentage"
                       THEN Times(Num(price), Over(Num(s.value), Num(Hundred)))
                       ELSE Num(s.value)
         IN [amount |-> amount, percentage |-> Num(s.value), settingId |-> Some(s.id)]

\* A variant of calculateCommission that reports 0 for a price of 0 instead of
\* dividing by it.
calculateCommissionWith_ZeroPriceGuarded(setting, price) ==
    IF IsAbsent(setting)
    THEN [amount |-> Times(Num(price), Fin(DefaultPercentage, Hundred)),
          percentage |-> Num(DefaultPercentage),
          settingId |-> None]
    ELSE LET s == The(setting)
             amount == IF s.type = "percentage"
                       THEN Times(Num(price), Over(Num(s.value), Num(Hundred)))
                       ELSE Num(s.value)
             percentage == IF s.type = "percentage" THEN Num(s.value)
                           ELSE IF price = 0 THEN Num(0)
                           ELSE Times(Over(amount, Num(price)), Num(Hundred))
         IN [amount |-> amount, percentage |-> percentage, settingId |-> Some(s.id)]

\* calculateCommission, given the setting findApplicable returned.
calculateCommissionWith(setting, price) ==
    IF IsAbsent(setting)
    THEN [amount |-> Times(Num(price), Fin(DefaultPercentage, Hundred)),
          percentage |-> Num(DefaultPercentage),
          settingId |-> None]
    ELSE LET s == The(setting)
             amount == IF s.type = "percentage"
                       THEN Times(Num(price), Over(Num(s.value), Num(Hundred)))
                       ELSE Num(s.value)
             percentage == IF s.type = "percentage"
                           THEN Num(s.value)
                           ELSE Times(Over(amount, Num(price)), Num(Hundred))
         IN [amount |-> amount, percentage |-> percentage, settingId |-> Some(s.id)]

\* calculateCommission: the results it can return for (price, seller role).
calculateCommission(table, price, role) ==
    {calculateCommissionWith(f, price) : f \in findApplicable(table, price, role)}

\* Commission.jsonSchema, as insertAndFetch validates the row: amount is a number
\* of at least 0, percentage is null or a number from 0 to 100. Infinity and NaN
\* fail the test of the maximum.
PercentageMinimum == 0
PercentageMaximum == 100
validCommission(row) ==
    /\ row.amount.k = "fin"
    /\ row.amount.n >= 0
    /\ row.percentage.k = "fin"
    /\ row.percentage.n >= PercentageMinimum * row.percentage.d
    /\ row.percentage.n <= PercentageMaximum * row.percentage.d

\* createForTransaction, after the transaction was found: the rows it can insert.
commissionRowsFor(table, userTable, txId, tx) ==
    {[transaction_id |-> txId,
      commission_setting_id |-> c.settingId,
      amount |-> c.amount,
      percentage |-> c.percentage,
      is_paid |-> FALSE,
      paid_at |-> NULL,
      payment_reference |-> NULL]
     : c \in calculateCommission(table, tx.price, userTable[tx.seller_id].role)}

\* new Date()
Now == "now"

\* markAsPaid: the patch of the row
markAsPaidPatch(row, paymentReference) ==
    [row EXCEPT !.is_paid = TRUE, !.paid_at = Now,
                !.payment_reference = paymentReference]

\* The rows payBatch selects: whereIn('id', commissionIds).where('is_paid', false)
payBatchRows(table, commissionIds) ==
    {i \in DOMAIN table : i \in commissionIds /\ table[i].is_paid = FALSE}

\* A variant of payBatch without where('is_paid', false).
payBatchWrite_AlsoPaid(table, commissionIds, paymentReference) ==
    [i \in DOMAIN table |->
        IF i \in commissionIds
        THEN markAsPaidPatch(table[i], paymentReference)
        ELSE table[i]]

\* payBatch: the table after the patch of the rows selected
payBatchWrite(table, commissionIds, paymentReference) ==
    [i \in DOMAIN table |->
        IF i \in payBatchRows(table, commissionIds)
        THEN markAsPaidPatch(table[i], paymentReference)
        ELSE table[i]]

\* -------------------------------------------------------------- Transaction

\* canBeCancelled
canBeCancelled(tx) == tx.status \in {"pending", "processing"}

\* canBeCompleted
canBeCompleted(tx) == tx.status = "processing"

\* complete: the patch of the transaction row
completeTransactionPatch(tx, paymentReference) ==
    [tx EXCEPT !.status = "completed",
               !.payment_reference = paymentReference,
               !.completed_at = Now]

\* A variant of complete's vehicle patch that leaves sold_at alone.
completeVehiclePatch_NoSoldAt(v) == [v EXCEPT !.status = "sold"]

\* A variant of complete's first write under a rule of one sale per vehicle: it
\* writes nothing when another transaction of the vehicle is completed already.
completeTransactionWrite_OneSalePerVehicle(table, t, paymentReference) ==
    IF \E o \in DOMAIN table \ {t} :
          table[o].vehicle_id = table[t].vehicle_id /\ table[o].status = "completed"
    THEN table
    ELSE [table EXCEPT ![t] = completeTransactionPatch(@, paymentReference)]

\* A variant of complete's first write that patches a processing row only.
completeTransactionWrite_IfProcessing(table, t, paymentReference) ==
    IF table[t].status = "processing"
    THEN [table EXCEPT ![t] = completeTransactionPatch(@, paymentReference)]
    ELSE table

\* complete, first write: this.$query().patch({...}), an UPDATE of the row by
\* its id and nothing else.
completeTransactionWrite(table, t, paymentReference) ==
    [table EXCEPT ![t] = completeTransactionPatch(@, paymentReference)]

\* complete: the patch of the vehicle row
completeVehiclePatch(v) == [v EXCEPT !.status = "sold", !.sold_at = Now]

\* cancel: the patch of the transaction row
cancelTransactionPatch(tx, reason) ==
    [tx EXCEPT !.status = "cancelled",
               !.cancelled_reason = reason,
               !.cancelled_at = Now]

\* A variant of cancel's vehicle patch that spares a vehicle already sold.
cancelVehiclePatch_UnlessSold(v) ==
    IF v.status = "sold" THEN v ELSE [v EXCEPT !.status = "available"]

\* cancel: the patch of the vehicle row
cancelVehiclePatch(v) == [v EXCEPT !.status = "available"]

\* A variant of process's patch that stamps the row as complete's patch does.
processTransactionPatch_Stamped(tx) ==
    [tx EXCEPT !.status = "processing", !.completed_at = Now]

\* process: the patch of the transaction row
processTransactionPatch(tx) == [tx EXCEPT !.status = "processing"]

\* A variant of the insert without the default of status.
newTransaction_NoDefault(vehicleId, sellerId, price) ==
    [vehicle_id |-> vehicleId, seller_id |-> sellerId, price |-> price,
     status |-> NULL, payment_reference |-> NULL, completed_at |-> NULL,
     cancelled_at |-> NULL, cancelled_reason |-> NULL]

\* The row an insert of a transaction stores: status takes the schema default.
newTransaction(vehicleId, sellerId, price) ==
    [vehicle_id |-> vehicleId, seller_id |-> sellerId, price |-> price,
     status |-> "pending", payment_reference |-> NULL, completed_at |-> NULL,
     cancelled_at |-> NULL, cancelled_reason |-> NULL]

\* ------------------------------------------------------------------ Vehicle
\* markAsSold
markAsSoldPatch(v) == [v EXCEPT !.status = "sold", !.sold_at = Now]
\* markAsReserved
markAsReservedPatch(v) == [v EXCEPT !.status = "reserved"]
\* markAsAvailable
markAsAvailablePatch(v) == [v EXCEPT !.status = "available"]

\* --------------------------------------------------------------------- User
\* A nullable timestamp: null, a Date, or the ISO string of a Date.
NullDate == [kind |-> "null", t |-> 0]
DateAt(t) == [kind |-> "date", t |-> t]
toISOString(date) == [kind |-> "iso", t |-> date.t]

\* BaseModel.$formatJson: created_at and updated_at, when set, become ISO strings.
BaseModel_formatJson(json) ==
    [f \in DOMAIN json |->
        IF f \in {"created_at", "updated_at"} /\ json[f].kind # "null"
        THEN toISOString(json[f])
        ELSE json[f]]

\* A variant of User.$formatJson without `delete json.two_factor_secret`.
User_formatJson_KeepsSecret(json) ==
    LET j == BaseModel_formatJson(json)
    IN [f \in DOMAIN j \ {"password", "password_hash"} |-> j[f]]

\* User.$formatJson
User_formatJson(json) ==
    LET j == BaseModel_formatJson(json)
    IN [f \in DOMAIN j \ {"password", "password_hash", "two_factor_secret"} |-> j[f]]

\* JSON.stringify(user) followed by JSON.parse: toJSON() runs $formatJson, and
\* every Date left in the object is written as its ISO string.
JSONRoundTrip(user) ==
    LET j == User_formatJson(user)
    IN [f \in DOMAIN j |->
           IF f \in {"created_at", "updated_at", "last_login_at"} /\ j[f].kind = "date"
           THEN toISOString(j[f])
           ELSE j[f]]

\* cache.get(cacheKeys.user(id)): the value of a key that is set and not expired
cacheGet(c, id, now) ==
    IF id \in DOMAIN c.user /\ c.user[id] # None /\ now < The(c.user[id]).expires
    THEN Some(The(c.user[id]).value)
    ELSE None

\* cache.set(cacheKeys.user(id), user, ttl): redisClient.setEx
cacheSet(c, id, user, ttl, now) ==
    [c EXCEPT !.user[id] = Some([value |-> JSONRoundTrip(user), expires |-> now + ttl])]

\* Redis drops the keys whose time to live has run out.
cacheExpire(c, now) ==
    [c EXCEPT !.user = [u \in DOMAIN c.user |->
                           IF c.user[u] # None /\ now >= The(c.user[u]).expires
                           THEN None ELSE c.user[u]]]

\* ----------------------------------------------------------------- paginate
\* An optional number of PaginationParams: absent, NaN or an integer.
Absent == [k |-> "absent", n |-> 0]
NaNParam == [k |-> "nan", n |-> 0]
IntParam(n) == [k |-> "int", n |-> n]

\* param || dflt: undefined, NaN and 0 are falsy
OrDefault(param, dflt) == IF param.k = "int" /\ param.n # 0 THEN param.n ELSE dflt

MathMax(a, b) == IF a >= b THEN a ELSE b
MathMin(a, b) == IF a <= b THEN a ELSE b
\* Math.ceil(a / b) for a >= 0 and b > 0
MathCeilOfQuotient(a, b) == IF a % b = 0 THEN a \div b ELSE (a \div b) + 1

DefaultPage == 1
DefaultLimit == 20
MinLimit == 1
MaxLimit == 100

\* A variant of paginate that rounds the number of pages down.
paginate_RoundsDown(params, total) ==
    LET page == MathMax(1, OrDefault(params.page, DefaultPage))
        limit == MathMin(MaxLimit, MathMax(MinLimit, OrDefault(params.limit, DefaultLimit)))
        totalPages == total \div limit
    IN [total |-> total, page |-> page, limit |-> limit,
        offset |-> (page - 1) * limit, totalPages |-> totalPages,
        hasNextPage |-> page < totalPages, hasPreviousPage |-> page > 1]

\* paginate, given the count its first query returned
paginate(params, total) ==
    LET page == MathMax(1, OrDefault(params.page, DefaultPage))
        limit == MathMin(MaxLimit, MathMax(MinLimit, OrDefault(params.limit, DefaultLimit)))
        totalPages == MathCeilOfQuotient(total, limit)
    IN [total |-> total, page |-> page, limit |-> limit,
        offset |-> (page - 1) * limit, totalPages |-> totalPages,
        hasNextPage |-> page < totalPages, hasPreviousPage |-> page > 1]

\* ------------------------------------------------------------------- inputs
\* Arguments of paginate: the page and the limit asked for, the rows counted
PageParams == {Absent, NaNParam} \cup {IntParam(n) : n \in {-1, 0, 1, 2, 3, 8, 9}}
LimitParams == {Absent, NaNParam} \cup {IntParam(n) : n \in {-5, 0, 1, 2, 20, 99, 100, 101, 1000}}
Totals == {0, 1, 2, 3, 19, 20, 21, 41, 100, 101, 150, 201}

\* Users of the users table: a private buyer and a dealer.
UserIds == {1, 2}
InitialUsers == (1 :> [role |-> "buyer"]) @@ (2 :> [role |-> "dealer"])
\* The sellers of the vehicles listed: the dealers.
Dealers == {u \in UserIds : InitialUsers[u].role = "dealer"}

VehicleIds == 1..MaxVehicles
TransactionIds == 1..MaxTransactions

\* Offer prices of the transactions created
TxPrices == {25000}
\* Arguments of complete() and cancel()
PaymentReferences == {"ref-1", "ref-2"}
CancelReasons == {"buyer withdrew", ""}

\* Arguments of the resolver
Prices == {0, 10000, 20000}
SellerRoles == {NULL, "buyer", "dealer"}

\* The rules inserted into the table the resolver is run against: every type,
\* role and priority without price bounds; fixed fees with an upper price bound
\* (0 included, which the schema's "minimum: 0" admits); rules switched off.
UnboundedShapes ==
    [tv : {[type |-> "percentage", value |-> 3],
           [type |-> "percentage", value |-> 5],
           [type |-> "fixed", value |-> 500]},
     min_price : {None}, max_price : {None},
     user_role : {NULL, "dealer"}, is_active : {TRUE}, priority : {0, 10}]
BoundedShapes ==
    [tv : {[type |-> "fixed", value |-> 500]},
     min_price : {None}, max_price : {Some(0), Some(10000)},
     user_role : {NULL}, is_active : {TRUE}, priority : {0, 10}]
InactiveShapes ==
    [tv : {[type |-> "percentage", value |-> 5]},
     min_price : {None}, max_price : {None},
     user_role : {NULL}, is_active : {FALSE}, priority : {0, 10}]
RuleShapes == UnboundedShapes \cup BoundedShapes \cup InactiveShapes

\* The rules inserted for the checks of the price bounds and of the ordering
\* of equal priorities: a bound on either side that is absent, 0 or 10000.
PlainShapes ==
    [tv : {[type |-> "percentage", value |-> 3], [type |-> "fixed", value |-> 500]},
     min_price : {None}, max_price : {None},
     user_role : {NULL}, is_active : {TRUE}, priority : {0, 10}]
DealerShapes ==
    [tv : {[type |-> "percentage", value |-> 3]},
     min_price : {None}, max_price : {None},
     user_role : {"dealer"}, is_active : {TRUE}, priority : {0, 10}]
LowerBoundShapes ==
    [tv : {[type |-> "fixed", value |-> 500]},
     min_price : {Some(0), Some(10000)}, max_price : {None},
     user_role : {NULL}, is_active : {TRUE}, priority : {0, 10}]
UpperBoundShapes ==
    [tv : {[type |-> "fixed", value |-> 500]},
     min_price : {None}, max_price : {Some(0), Some(10000)},
     user_role : {NULL}, is_active : {TRUE}, priority : {0, 10}]
BoundShapes == PlainShapes \cup DealerShapes \cup LowerBoundShapes \cup UpperBoundShapes

\* The row an insert of a commission setting stores; created_at is the time of
\* the insert, here the number of the insert.
newSetting(id, name, sh, createdAt) ==
    [id |-> id, name |-> name, type |-> sh.tv.type, value |-> sh.tv.value,
     min_price |-> sh.min_price, max_price |-> sh.max_price,
     user_role |-> sh.user_role, is_active |-> sh.is_active,
     priority |-> sh.priority, created_at |-> createdAt]

\* The rows of createDefault, in the order of its array.
DefaultSettings ==
    <<[name |-> "Comision estandar",
       tv |-> [type |-> "percentage", value |-> 5],
       min_price |-> None, max_price |-> None, user_role |-> NULL,
       is_active |-> TRUE, priority |-> 0],
      [name |-> "Comision premium",
       tv |-> [type |-> "percentage", value |-> 3],
       min_price |-> None, max_price |-> None, user_role |-> "dealer",
       is_active |-> TRUE, priority |-> 10],
      [name |-> "Comision vehiculos economicos",
       tv |-> [type |-> "fixed", value |-> 500],
       min_price |-> None, max_price |-> Some(10000), user_role |-> NULL,
       is_active |-> TRUE, priority |-> 5],
      [name |-> "Comision vehiculos de lujo",
       tv |-> [type |-> "percentage", value |-> 2],
       min_price |-> Some(50000), max_price |-> None, user_role |-> NULL,
       is_active |-> TRUE, priority |-> 15]>>

\* createDefault: inserts, in order, each default whose name is not in the table.
RECURSIVE createDefaultFrom(_, _)
createDefaultFrom(table, i) ==
    IF i > Len(DefaultSettings) THEN table
    ELSE LET d == DefaultSettings[i]
             n == Cardinality(table) + 1
         IN IF \E s \in table : s.name = d.name
            THEN createDefaultFrom(table, i + 1)
            ELSE createDefaultFrom(table \cup {newSetting(n, d.name, d, n)}, i + 1)

NoCall == [op |-> "none"]

\* Redis after start-up, and no request in flight
EmptyCache == [user |-> [u \in UserIds |-> None], blacklisted_tokens |-> {}]
NoRequests == <<>>
\* No conversation, no message, no favorite; favorites_count has its default.
InitEngagement ==
    /\ conversations = <<>>
    /\ messages = <<>>
    /\ favorites = {}
    /\ favorites_count = [v \in VehicleIds |-> 0]

\* ------------------------------------------------- the resolver, on its own
InitResolver ==
    /\ settings = {}
    /\ users = InitialUsers
    /\ vehicles = <<>>
    /\ transactions = <<>>
    /\ commissions = <<>>
    /\ last = NoCall
    /\ cache = EmptyCache
    /\ clock = 0
    /\ requests = NoRequests
    /\ InitEngagement

\* CommissionSetting.query().insert(...): BaseModel.$beforeInsert sets the id
\* and created_at.
InsertSetting(sh) ==
    /\ Cardinality(settings) < MaxSettings
    /\ LET n == Cardinality(settings) + 1
       IN settings' = settings \cup {newSetting(n, "rule", sh, n)}
    /\ last' = [op |-> "insertSetting"]
    /\ UNCHANGED <<engagement, users, vehicles, transactions, commissions, cache, clock, requests>>

\* Commission.calculateCommission(transaction) for a transaction of the given
\* price whose seller has the given role (NULL: the seller is not loaded);
\* found is what its call of findApplicable returned.
CalculateCommission(price, role) ==
    /\ \E f \in findApplicable(settings, price, role) :
          last' = [op |-> "calculateCommission", price |-> price, role |-> role,
                   found |-> f, result |-> calculateCommissionWith(f, price)]
    /\ UNCHANGED <<engagement, settings, users, vehicles, transactions, commissions, cache, clock, requests>>

\* setting.calculateAmount(price) on a row of the table
CalculateAmount(s, price) ==
    /\ last' = [op |-> "calculateAmount", price |-> price, setting |-> s,
                amount |-> calculateAmount(s, price)]
    /\ UNCHANGED <<engagement, settings, users, vehicles, transactions, commissions, cache, clock, requests>>

NextResolver ==
    \/ \E sh \in RuleShapes : InsertSetting(sh)
    \/ \E price \in Prices, role \in SellerRoles : CalculateCommission(price, role)
    \/ \E s \in settings, price \in Prices : CalculateAmount(s, price)

SpecResolver == InitResolver /\ [][NextResolver]_vars

\* ------------------------------------- the rule predicates and the query
\* setting.appliesToPrice(price) on a row of the table
AppliesToPrice(s, price) ==
    /\ last' = [op |-> "appliesToPrice", price |-> price, setting |-> s,
                result |-> appliesToPrice(s, price)]
    /\ UNCHANGED <<engagement, settings, users, vehicles, transactions, commissions, cache, clock, requests>>

\* Commission.calculateCommission(transaction) called twice, one call after the
\* other, with no write to commission_settings in between: each call runs the
\* query of findApplicable afresh.
CalculateCommissionTwice(price, role) ==
    /\ \E f1, f2 \in findApplicable(settings, price, role) :
          last' = [op |-> "calculateCommissionTwice", price |-> price, role |-> role,
                   found |-> f1,
                   first |-> calculateCommissionWith(f1, price),
                   second |-> calculateCommissionWith(f2, price)]
    /\ UNCHANGED <<engagement, settings, users, vehicles, transactions, commissions, cache, clock, requests>>

\* setting.appliesToRole(role) on a row of the table
AppliesToRole(s, role) ==
    /\ last' = [op |-> "appliesToRole", role |-> role, setting |-> s,
                result |-> appliesToRole(s, role)]
    /\ UNCHANGED <<engagement, settings, users, vehicles, transactions, commissions, cache, clock, requests>>

NextRules ==
    \/ \E sh \in BoundShapes : InsertSetting(sh)
    \/ \E s \in settings, price \in Prices : AppliesToPrice(s, price)
    \/ \E price \in Prices, role \in SellerRoles : CalculateCommissionTwice(price, role)

SpecRules == InitResolver /\ [][NextRules]_vars

\* The rules with and without a role, asked about each role.
NextRoles ==
    \/ \E sh \in PlainShapes \cup DealerShapes : InsertSetting(sh)
    \/ \E s \in settings, role \in SellerRoles : AppliesToRole(s, role)

SpecRoles == InitResolver /\ [][NextRoles]_vars

\* ------------------------------------------- the marketplace: the lifecycle
\* A vehicle row as inserted: status is available (the default) or inactive.
Init ==
    /\ settings = {}
    /\ users = InitialUsers
    /\ vehicles \in [VehicleIds -> [status : {"available", "inactive"}, sold_at : {NULL}]]
    /\ transactions = <<>>
    /\ commissions = <<>>
    /\ last = NoCall
    /\ cache = EmptyCache
    /\ clock = 0
    /\ requests = NoRequests
    /\ InitEngagement

\* What a lifecycle call on transaction t saw before it wrote.
Seen(op, t, arg) ==
    [op |-> op, id |-> t, arg |-> arg,
     status |-> transactions[t].status,
     vehicle |-> vehicles[transactions[t].vehicle_id]]

\* CommissionSetting.createDefault()
CreateDefault ==
    /\ settings' = createDefaultFrom(settings, 1)
    /\ settings' # settings
    /\ last' = [op |-> "createDefault"]
    /\ UNCHANGED <<engagement, users, vehicles, transactions, commissions, cache, clock, requests>>

\* Transaction.query().insert(...): the schema requires vehicle_id, buyer_id,
\* seller_id, price and net_amount and constrains nothing else; the table has
\* no unique index over vehicle_id.
CreateTransaction(limit, vehicleId, sellerId, price) ==
    /\ Len(transactions) < limit
    /\ transactions' = Append(transactions, newTransaction(vehicleId, sellerId, price))
    /\ last' = [op |-> "insertTransaction", id |-> Len(transactions) + 1]
    /\ UNCHANGED <<engagement, settings, users, vehicles, commissions, cache, clock, requests>>

\* transaction.process()
Process(t) ==
    /\ transactions' = [transactions EXCEPT ![t] = processTransactionPatch(@)]
    /\ last' = Seen("process", t, NULL)
    /\ UNCHANGED <<engagement, settings, users, vehicles, commissions, cache, clock, requests>>

\* transaction.complete(paymentReference)
Complete(t, paymentReference) ==
    /\ transactions' =
          [transactions EXCEPT ![t] = completeTransactionPatch(@, paymentReference)]
    /\ vehicles' =
          [vehicles EXCEPT ![transactions[t].vehicle_id] = completeVehiclePatch(@)]
    /\ last' = Seen("complete", t, paymentReference)
    /\ UNCHANGED <<engagement, settings, users, commissions, cache, clock, requests>>

\* transaction.cancel(reason)
Cancel(t, reason) ==
    /\ transactions' = [transactions EXCEPT ![t] = cancelTransactionPatch(@, reason)]
    /\ vehicles' =
          [vehicles EXCEPT ![transactions[t].vehicle_id] = cancelVehiclePatch(@)]
    /\ last' = Seen("cancel", t, reason)
    /\ UNCHANGED <<engagement, settings, users, commissions, cache, clock, requests>>

\* vehicle.markAsSold(buyerId)
MarkAsSold(v) ==
    /\ vehicles' = [vehicles EXCEPT ![v] = markAsSoldPatch(@)]
    /\ last' = [op |-> "markAsSold", id |-> v]
    /\ UNCHANGED <<engagement, settings, users, transactions, commissions, cache, clock, requests>>

\* vehicle.markAsReserved()
MarkAsReserved(v) ==
    /\ vehicles' = [vehicles EXCEPT ![v] = markAsReservedPatch(@)]
    /\ last' = [op |-> "markAsReserved", id |-> v]
    /\ UNCHANGED <<engagement, settings, users, transactions, commissions, cache, clock, requests>>

\* vehicle.markAsAvailable()
MarkAsAvailable(v) ==
    /\ vehicles' = [vehicles EXCEPT ![v] = markAsAvailablePatch(@)]
    /\ last' = [op |-> "markAsAvailable", id |-> v]
    /\ UNCHANGED <<engagement, settings, users, transactions, commissions, cache, clock, requests>>

\* Commission.createForTransaction(transactionId)
CreateForTransaction(t) ==
    /\ Len(commissions) < MaxCommissions
    /\ IF t \notin DOMAIN transactions
       THEN /\ last' = [op |-> "createForTransaction", id |-> t,
                        error |-> "Transaction not found"]
            /\ UNCHANGED commissions
       ELSE \E row \in commissionRowsFor(settings, users, t, transactions[t]) :
               IF validCommission(row)
               THEN /\ commissions' = Append(commissions, row)
                    /\ last' = [op |-> "createForTransaction", id |-> t,
                                error |-> NULL, row |-> row]
               ELSE /\ last' = [op |-> "createForTransaction", id |-> t,
                                error |-> "ValidationError", row |-> row]
                    /\ UNCHANGED commissions
    /\ UNCHANGED <<engagement, settings, users, vehicles, transactions, cache, clock, requests>>

Next ==
    \/ \E v \in VehicleIds, u \in Dealers, price \in TxPrices :
          CreateTransaction(MaxTransactions, v, u, price)
    \/ \E t \in DOMAIN transactions : Process(t)
    \/ \E t \in DOMAIN transactions, ref \in PaymentReferences : Complete(t, ref)
    \/ \E t \in DOMAIN transactions, reason \in CancelReasons : Cancel(t, reason)
    \/ \E v \in VehicleIds : MarkAsSold(v)
    \/ \E v \in VehicleIds : MarkAsReserved(v)
    \/ \E v \in VehicleIds : MarkAsAvailable(v)

Spec == Init /\ [][Next]_vars

\* ------------------------------------- several offers on the vehicles listed
NextListing ==
    \/ \E v \in VehicleIds, u \in Dealers, price \in TxPrices :
          CreateTransaction(MaxOffers, v, u, price)
    \/ \E t \in DOMAIN transactions : Process(t)
    \/ \E t \in DOMAIN transactions, ref \in PaymentReferences : Complete(t, ref)
    \/ \E t \in DOMAIN transactions, reason \in CancelReasons : Cancel(t, reason)
    \/ \E v \in VehicleIds : MarkAsSold(v)
    \/ \E v \in VehicleIds : MarkAsReserved(v)
    \/ \E v \in VehicleIds : MarkAsAvailable(v)

SpecListing == Init /\ [][NextListing]_vars

\* ------------------- several offers, through the Transaction methods alone
NextOffers ==
    \/ \E v \in VehicleIds, u \in Dealers, price \in TxPrices :
          CreateTransaction(MaxOffers, v, u, price)
    \/ \E t \in DOMAIN transactions : Process(t)
    \/ \E t \in DOMAIN transactions, ref \in PaymentReferences : Complete(t, ref)
    \/ \E t \in DOMAIN transactions, reason \in CancelReasons : Cancel(t, reason)

SpecOffers == Init /\ [][NextOffers]_vars

\* ------------------------------------ lifecycle calls that interleave
\* Two offers on vehicle 1, both processed and neither completed: the state
\* after two inserts and two process() calls.
RaceTransactions ==
    [t \in {1, 2} |-> processTransactionPatch(newTransaction(1, 2, 25000))]

\* The request that wrote each row last (0: none has).
NoWrites ==
    [op |-> "request",
     transaction |-> [t \in DOMAIN RaceTransactions |-> 0],
     vehicle |-> [v \in VehicleIds |-> 0]]

InitRace ==
    /\ settings = {}
    /\ users = InitialUsers
    /\ vehicles = [v \in VehicleIds |-> [status |-> "available", sold_at |-> NULL]]
    /\ transactions = RaceTransactions
    /\ commissions = <<>>
    /\ last = NoWrites
    /\ cache = EmptyCache
    /\ clock = 0
    /\ requests = NoRequests
    /\ InitEngagement

\* The guard a caller reads on the instance it has loaded.
guardOf(op, instance) ==
    IF op = "complete" THEN canBeCompleted(instance) ELSE canBeCancelled(instance)

\* A request loads transaction t (Transaction.query().findById) and reads the
\* guard of the call it is about to make on the instance loaded.
Begin(op, t, arg) ==
    /\ Len(requests) < MaxRequests
    /\ requests' = Append(requests,
          [op |-> op, id |-> t, arg |-> arg,
           status |-> transactions[t].status,
           vehicle_id |-> transactions[t].vehicle_id,
           pc |-> IF guardOf(op, transactions[t]) THEN "checked" ELSE "rejected"])
    /\ UNCHANGED <<engagement, settings, users, vehicles, transactions, commissions, last,
                   cache, clock>>

\* complete / cancel, up to the first await: the patch of the transaction row
PatchTransaction(r) ==
    /\ requests[r].pc = "checked"
    /\ transactions' =
          IF requests[r].op = "complete"
          THEN completeTransactionWrite(transactions, requests[r].id, requests[r].arg)
          ELSE [transactions EXCEPT ![requests[r].id] =
                                        cancelTransactionPatch(@, requests[r].arg)]
    /\ requests' = [requests EXCEPT ![r].pc = "patched"]
    /\ last' = [last EXCEPT !.transaction[requests[r].id] = r]
    /\ UNCHANGED <<engagement, settings, users, vehicles, commissions, cache, clock>>

\* complete / cancel, after the first await: the patch of the vehicle row,
\* found by the vehicle_id of the instance
PatchVehicle(r) ==
    /\ requests[r].pc = "patched"
    /\ vehicles' =
          [vehicles EXCEPT ![requests[r].vehicle_id] =
              IF requests[r].op = "complete"
              THEN completeVehiclePatch(@) ELSE cancelVehiclePatch(@)]
    /\ requests' = [requests EXCEPT ![r].pc = "done"]
    /\ last' = [last EXCEPT !.vehicle[requests[r].vehicle_id] = r]
    /\ UNCHANGED <<engagement, settings, users, transactions, commissions, cache, clock>>

\* A variant of what a failed second write leaves: the transaction row put
\* back to the status the request had loaded, as a rollback would.
afterVehicleWriteError_RolledBack(table, t, loadedStatus) ==
    [table EXCEPT ![t].status = loadedStatus]

\* complete / cancel when the patch of the vehicle row rejects: the await throws
\* out of the method, which has no try/catch and runs in no database
\* transaction, so the transactions table stays as the first write left it.
afterVehicleWriteError(table, t, loadedStatus) == table

\* The first patch rejects: the method throws before it has written anything.
FailPatchTransaction(r) ==
    /\ requests[r].pc = "checked"
    /\ requests' = [requests EXCEPT ![r].pc = "failedFirst"]
    /\ UNCHANGED <<engagement, settings, users, vehicles, transactions, commissions, last,
                   cache, clock>>

\* The second patch rejects.
FailPatchVehicle(r) ==
    /\ requests[r].pc = "patched"
    /\ transactions' =
          afterVehicleWriteError(transactions, requests[r].id, requests[r].status)
    /\ requests' = [requests EXCEPT ![r].pc = "failedSecond"]
    /\ UNCHANGED <<engagement, settings, users, vehicles, commissions, last, cache, clock>>

NextRace ==
    \/ \E t \in DOMAIN transactions, ref \in PaymentReferences : Begin("complete", t, ref)
    \/ \E t \in DOMAIN transactions, reason \in CancelReasons : Begin("cancel", t, reason)
    \/ \E r \in DOMAIN requests : PatchTransaction(r)
    \/ \E r \in DOMAIN requests : PatchVehicle(r)
    \/ \E r \in DOMAIN requests : FailPatchTransaction(r)
    \/ \E r \in DOMAIN requests : FailPatchVehicle(r)

SpecRace == InitRace /\ [][NextRace]_vars

\* ------------------------------------------ a sale and its commission record
NextSale ==
    \/ CreateDefault
    \/ \E v \in VehicleIds, u \in UserIds, price \in TxPrices :
          CreateTransaction(MaxTransactions, v, u, price)
    \/ \E t \in DOMAIN transactions : Process(t)
    \/ \E t \in DOMAIN transactions, ref \in PaymentReferences : Complete(t, ref)
    \/ \E t \in DOMAIN transactions, reason \in CancelReasons : Cancel(t, reason)
    \/ \E t \in TransactionIds : CreateForTransaction(t)

SpecSale == Init /\ [][NextSale]_vars

\* --------------------------------------- fixed fees on small and zero prices
\* The rules inserted: a percentage, a fixed fee, and a fixed fee of 0 (the
\* schema asks of value no more than minimum 0).
FeeShapes ==
    [tv : {[type |-> "percentage", value |-> 5],
           [type |-> "fixed", value |-> 500],
           [type |-> "fixed", value |-> 0]},
     min_price : {None}, max_price : {None},
     user_role : {NULL}, is_active : {TRUE}, priority : {0, 10}]
\* The prices of the transactions: 0 (the schema's minimum), one below the
\* fixed fee and one above it.
FeePrices == {0, 100, 20000}

NextFee ==
    \/ \E sh \in FeeShapes : InsertSetting(sh)
    \/ \E price \in FeePrices, role \in SellerRoles : CalculateCommission(price, role)

SpecFee == InitResolver /\ [][NextFee]_vars

NextRecord ==
    \/ \E sh \in FeeShapes : InsertSetting(sh)
    \/ \E v \in VehicleIds, u \in Dealers, price \in FeePrices :
          CreateTransaction(MaxTransactions, v, u, price)
    \/ \E t \in TransactionIds : CreateForTransaction(t)

SpecRecord == InitResolver /\ [][NextRecord]_vars

\* ------------------------------------------------ paying the commissions
\* commission.markAsPaid(paymentReference) on the row with id i
MarkAsPaid(i, paymentReference) ==
    /\ commissions' = [commissions EXCEPT ![i] = markAsPaidPatch(@, paymentReference)]
    /\ last' = [op |-> "markAsPaid", id |-> i, ref |-> paymentReference]
    /\ UNCHANGED <<engagement, settings, users, vehicles, transactions, cache, clock, requests>>

\* Commission.payBatch(commissionIds, paymentReference): resolves to the number
\* of rows patched.
PayBatch(commissionIds, paymentReference) ==
    /\ commissions' = payBatchWrite(commissions, commissionIds, paymentReference)
    /\ last' = [op |-> "payBatch", ids |-> commissionIds, ref |-> paymentReference,
                count |-> Cardinality(payBatchRows(commissions, commissionIds))]
    /\ UNCHANGED <<engagement, settings, users, vehicles, transactions, cache, clock, requests>>

\* The ids passed to payBatch: of rows of the table or of none.
CommissionIds == 1..MaxCommissions

NextPayout ==
    \/ \E v \in VehicleIds, u \in Dealers, price \in TxPrices :
          CreateTransaction(MaxTransactions, v, u, price)
    \/ \E t \in TransactionIds : CreateForTransaction(t)
    \/ \E i \in DOMAIN commissions, ref \in PaymentReferences : MarkAsPaid(i, ref)
    \/ \E ids \in SUBSET CommissionIds, ref \in PaymentReferences : PayBatch(ids, ref)

SpecPayout == InitResolver /\ [][NextPayout]_vars

\* ------------------------------------------ conversations and their messages
isBuyer(conv, userId) == conv.buyer_id = userId
isSeller(conv, userId) == conv.seller_id = userId

\* conversation.incrementUnreadCount(senderId): the patch
incrementUnreadCount(conv, senderId) ==
    LET counted ==
            IF isBuyer(conv, senderId)
            THEN [conv EXCEPT !.seller_unread_count = conv.seller_unread_count + 1]
            ELSE IF isSeller(conv, senderId)
                 THEN [conv EXCEPT !.buyer_unread_count = conv.buyer_unread_count + 1]
                 ELSE conv
    IN [counted EXCEPT !.last_message_at = Now]

\* The patch {is_read: true, read_at: new Date()} on the messages of the
\* conversation that userId did not send and that are unread.
readByPatch(table, conversationId, userId) ==
    [m \in DOMAIN table |->
        IF /\ table[m].conversation_id = conversationId
           /\ table[m].sender_id # userId
           /\ table[m].is_read = FALSE
        THEN [table[m] EXCEPT !.is_read = TRUE, !.read_at = Now]
        ELSE table[m]]

\* Conversation.findOrCreate(vehicleId, buyerId, sellerId)
FindOrCreate(vehicleId, buyerId, sellerId) ==
    /\ Len(conversations) < MaxConversations
    /\ ~\E c \in DOMAIN conversations :
          /\ conversations[c].vehicle_id = vehicleId
          /\ conversations[c].buyer_id = buyerId
          /\ conversations[c].seller_id = sellerId
    /\ conversations' = Append(conversations,
          [vehicle_id |-> vehicleId, buyer_id |-> buyerId, seller_id |-> sellerId,
           last_message_at |-> NULL, buyer_unread_count |-> 0,
           seller_unread_count |-> 0])
    /\ last' = [op |-> "findOrCreate", id |-> Len(conversations) + 1]
    /\ UNCHANGED <<settings, users, vehicles, transactions, commissions, cache,
                   clock, requests, messages, favorites, favorites_count>>

\* Message.sendMessage(conversationId, senderId, content)
SendMessage(conversationId, senderId) ==
    /\ Len(messages) < MaxMessages
    /\ messages' = Append(messages,
          [conversation_id |-> conversationId, sender_id |-> senderId,
           is_read |-> FALSE, read_at |-> NULL])
    /\ conversations' =
          [conversations EXCEPT ![conversationId] = incrementUnreadCount(@, senderId)]
    /\ last' = [op |-> "sendMessage", id |-> Len(messages) + 1,
                conversation |-> conversationId, user |-> senderId]
    /\ UNCHANGED <<settings, users, vehicles, transactions, commissions, cache,
                   clock, requests, favorites, favorites_count>>

\* conversation.markAsRead(userId)
ConversationMarkAsRead(conversationId, userId) ==
    /\ LET conv == conversations[conversationId]
       IN IF isBuyer(conv, userId) \/ isSeller(conv, userId)
          THEN /\ conversations' =
                     [conversations EXCEPT ![conversationId] =
                         IF isBuyer(conv, userId)
                         THEN [@ EXCEPT !.buyer_unread_count = 0]
                         ELSE [@ EXCEPT !.seller_unread_count = 0]]
               /\ messages' = readByPatch(messages, conversationId, userId)
          ELSE UNCHANGED <<conversations, messages>>
    /\ last' = [op |-> "Conversation.markAsRead", conversation |-> conversationId,
                user |-> userId]
    /\ UNCHANGED <<settings, users, vehicles, transactions, commissions, cache,
                   clock, requests, favorites, favorites_count>>

\* message.markAsRead()
MessageMarkAsRead(m) ==
    /\ messages' = IF messages[m].is_read = FALSE
                   THEN [messages EXCEPT ![m].is_read = TRUE, ![m].read_at = Now]
                   ELSE messages
    /\ last' = [op |-> "Message.markAsRead", id |-> m]
    /\ UNCHANGED <<settings, users, vehicles, transactions, commissions, cache,
                   clock, requests, conversations, favorites, favorites_count>>

\* Message.markConversationMessagesAsRead(conversationId, userId): resolves to
\* the number of rows patched.
MarkConversationMessagesAsRead(conversationId, userId) ==
    /\ messages' = readByPatch(messages, conversationId, userId)
    /\ last' = [op |-> "markConversationMessagesAsRead",
                conversation |-> conversationId, user |-> userId,
                count |-> Cardinality({m \in DOMAIN messages :
                                         messages'[m] # messages[m]})]
    /\ UNCHANGED <<settings, users, vehicles, transactions, commissions, cache,
                   clock, requests, conversations, favorites, favorites_count>>

\* The user ids passed as the reader: the buyer, the seller and an id that is
\* neither. A message's sender_id references a row of users.
Buyers == {u \in UserIds : InitialUsers[u].role = "buyer"}
Readers == UserIds \cup {3}

NextMessages ==
    \/ \E v \in VehicleIds, b \in Buyers, d \in Dealers : FindOrCreate(v, b, d)
    \/ \E c \in DOMAIN conversations, u \in UserIds : SendMessage(c, u)
    \/ \E c \in DOMAIN conversations, u \in Readers : ConversationMarkAsRead(c, u)
    \/ \E m \in DOMAIN messages : MessageMarkAsRead(m)
    \/ \E c \in DOMAIN conversations, u \in Readers :
          MarkConversationMessagesAsRead(c, u)

SpecMessages == InitResolver /\ [][NextMessages]_vars

\* ----------------------------------------------- favorites, calls interleaved
\* findOne({user_id, vehicle_id}): the rows it can return, none or one.
findFavorite(table, userId, vehicleId) ==
    {f \in table : f.user_id = userId /\ f.vehicle_id = vehicleId}

\* Favorite.toggle(userId, vehicleId), its read: the call loads the row, if
\* there is one.
ToggleFind(userId, vehicleId) ==
    /\ Len(requests) < MaxToggles
    /\ requests' = Append(requests,
          [op |-> "toggle", user_id |-> userId, vehicle_id |-> vehicleId,
           existing |-> findFavorite(favorites, userId, vehicleId),
           pc |-> "found"])
    /\ last' = [op |-> "toggle.findOne", id |-> Len(requests) + 1]
    /\ UNCHANGED <<settings, users, vehicles, transactions, commissions, cache,
                   clock, conversations, messages, favorites, favorites_count>>

\* toggle, its first write: existing.$query().delete() removes the row loaded,
\* if it is still there; insert adds a row, and fails on UNIQUE(user_id,
\* vehicle_id) when the pair has one.
ToggleWrite(r) ==
    /\ requests[r].pc = "found"
    /\ LET q == requests[r]
       IN IF q.existing # {}
          THEN /\ favorites' = favorites \ q.existing
               /\ requests' = [requests EXCEPT ![r].pc = "deleted"]
          ELSE IF findFavorite(favorites, q.user_id, q.vehicle_id) # {}
               THEN /\ requests' = [requests EXCEPT ![r].pc = "failed"]
                    /\ UNCHANGED favorites
               ELSE /\ favorites' = favorites \cup
                          {[id |-> r, user_id |-> q.user_id, vehicle_id |-> q.vehicle_id]}
                    /\ requests' = [requests EXCEPT ![r].pc = "inserted"]
    /\ last' = [op |-> "toggle.write", id |-> r]
    /\ UNCHANGED <<settings, users, vehicles, transactions, commissions, cache,
                   clock, conversations, messages, favorites_count>>

\* toggle, its second write: decrement or increment of favorites_count, and
\* the result {added}.
ToggleCount(r) ==
    /\ requests[r].pc \in {"deleted", "inserted"}
    /\ LET q == requests[r]
           added == q.pc = "inserted"
       IN /\ favorites_count' =
                [favorites_count EXCEPT ![q.vehicle_id] = IF added THEN @ + 1 ELSE @ - 1]
          /\ requests' = [requests EXCEPT ![r].pc = "done"]
          /\ last' = [op |-> "toggle", id |-> r, added |-> added]
    /\ UNCHANGED <<settings, users, vehicles, transactions, commissions, cache,
                   clock, conversations, messages, favorites>>

NextFavorites ==
    \/ \E u \in UserIds, v \in VehicleIds : ToggleFind(u, v)
    \/ \E r \in DOMAIN requests : ToggleWrite(r)
    \/ \E r \in DOMAIN requests : ToggleCount(r)

SpecFavorites == Init /\ [][NextFavorites]_vars

\* ------------------------------------------- the users, Redis and the clock
\* The rows of the users table: the buyer, and the dealer with two-factor
\* authentication switched on; is_active takes the schema default.
InitialAccounts ==
    [u \in UserIds |->
        [role |-> InitialUsers[u].role,
         is_active |-> TRUE,
         password_hash |-> "bcrypt-hash",
         two_factor_secret |-> IF InitialUsers[u].role = "dealer" THEN "totp-secret" ELSE NULL,
         last_login_at |-> NullDate,
         created_at |-> DateAt(0)]]

\* The subjects of the tokens presented: the users, and a user since deleted.
TokenSubjects == UserIds \cup {3}

InitAuth ==
    /\ settings = {}
    /\ users = InitialAccounts
    /\ vehicles = <<>>
    /\ transactions = <<>>
    /\ commissions = <<>>
    /\ last = NoCall
    /\ cache = EmptyCache
    /\ clock = 0
    /\ requests = NoRequests
    /\ InitEngagement

\* What authMiddleware answers, given the user it has got hold of.
authOutcome(user) ==
    IF ~user.is_active THEN "Account is deactivated" ELSE "next"

\* cache.sismember('blacklisted_tokens', token): false when the call to Redis
\* throws.
sismember(c, token, answers) == answers /\ token \in c.blacklisted_tokens

\* authMiddleware, for a request with the given Authorization header; a token
\* is named by its subject and by whether jwt.verify accepts it. redis tells
\* which of the three calls to Redis are answered; cache.get resolves to null
\* and cache.set does nothing when its call throws.
Authenticate(req, redis) ==
    LET sub == req.token.sub
        found == IF redis.get THEN cacheGet(cache, sub, clock) ELSE None
        answer(hit, outcome) ==
            [op |-> "authMiddleware", id |-> sub, scheme |-> req.scheme,
             token |-> req.token, hit |-> hit, outcome |-> outcome]
    IN /\ IF req.scheme # "Bearer"
          THEN /\ last' = answer(FALSE, "No token provided")
               /\ UNCHANGED cache
          ELSE IF sismember(cache, req.token, redis.sismember)
          THEN /\ last' = answer(FALSE, "Token has been revoked")
               /\ UNCHANGED cache
          ELSE IF ~req.token.verifies
          THEN /\ last' = answer(FALSE, "Invalid token")
               /\ UNCHANGED cache
          ELSE IF found # None
          THEN /\ last' = answer(TRUE, authOutcome(The(found)))
               /\ UNCHANGED cache
          ELSE IF sub \notin DOMAIN users
          THEN /\ last' = answer(FALSE, "User not found")
               /\ UNCHANGED cache
          ELSE /\ cache' = IF redis.set
                           THEN cacheSet(cache, sub, users[sub], UserCacheTTL, clock)
                           ELSE cache
               /\ last' = answer(FALSE, authOutcome(users[sub]))
       /\ UNCHANGED <<engagement, settings, users, vehicles, transactions, commissions,
                      clock, requests>>

\* Redis answers every call.
RedisUp == [sismember |-> TRUE, get |-> TRUE, set |-> TRUE]
\* A token jwt.verify accepts
ValidToken(sub) == [sub |-> sub, verifies |-> TRUE]

\* authMiddleware, for a request bearing a valid token of the given subject,
\* while Redis answers.
AuthMiddleware(sub) ==
    Authenticate([scheme |-> "Bearer", token |-> ValidToken(sub)], RedisUp)

\* user.updateLastLogin()
UpdateLastLogin(u) ==
    /\ users' = [users EXCEPT ![u].last_login_at = DateAt(clock)]
    /\ last' = [op |-> "updateLastLogin", id |-> u]
    /\ UNCHANGED <<engagement, settings, vehicles, transactions, commissions, cache, clock, requests>>

\* user.$query().patch({ is_active })
PatchIsActive(u, isActive) ==
    /\ users' = [users EXCEPT ![u].is_active = isActive]
    /\ last' = [op |-> "patchIsActive", id |-> u]
    /\ UNCHANGED <<engagement, settings, vehicles, transactions, commissions, cache, clock, requests>>

\* JSON.stringify / res.json of a User instance: the row as loaded, with the
\* virtual property password when the instance was built from a request body.
ToJSON(u, withPassword) ==
    LET instance == IF withPassword
                    THEN users[u] @@ [password |-> "plain-text"]
                    ELSE users[u]
    IN /\ last' = [op |-> "toJSON", id |-> u, json |-> User_formatJson(instance)]
       /\ UNCHANGED <<engagement, settings, users, vehicles, transactions, commissions,
                      cache, clock, requests>>

\* Time passes; Redis drops the keys that have expired.
Tick ==
    /\ clock < MaxTicks * TickSeconds
    /\ clock' = clock + TickSeconds
    /\ cache' = cacheExpire(cache, clock')
    /\ last' = [op |-> "tick"]
    /\ UNCHANGED <<engagement, settings, users, vehicles, transactions, commissions, requests>>

NextAuth ==
    \/ \E sub \in TokenSubjects : AuthMiddleware(sub)
    \/ \E u \in UserIds : UpdateLastLogin(u)
    \/ \E u \in UserIds, isActive \in BOOLEAN : PatchIsActive(u, isActive)
    \/ \E u \in UserIds, withPassword \in BOOLEAN : ToJSON(u, withPassword)
    \/ Tick

SpecAuth == InitAuth /\ [][NextAuth]_vars

\* ------------------------------------------- revoked tokens, Redis up or down
\* cache.sadd('blacklisted_tokens', token), when Redis answers
BlacklistToken(token) ==
    /\ cache' = [cache EXCEPT !.blacklisted_tokens = @ \cup {token}]
    /\ last' = [op |-> "sadd", token |-> token]
    /\ UNCHANGED <<engagement, settings, users, vehicles, transactions, commissions,
                   clock, requests>>

\* The requests: no Authorization header, another scheme, or a Bearer token.
AuthRequests ==
    [scheme : {"none", "Basic", "Bearer"},
     token : [sub : TokenSubjects, verifies : BOOLEAN]]
\* Which calls to Redis are answered
RedisAnswers == [sismember : BOOLEAN, get : BOOLEAN, set : BOOLEAN]

NextBlacklist ==
    \/ \E sub \in TokenSubjects : BlacklistToken(ValidToken(sub))
    \/ \E req \in AuthRequests, redis \in RedisAnswers : Authenticate(req, redis)
    \/ \E u \in UserIds, isActive \in BOOLEAN : PatchIsActive(u, isActive)

SpecBlacklist == InitAuth /\ [][NextBlacklist]_vars

\* ------------------------------------------------------------ the paginator
\* paginate(query, { page, limit }) on a query that counts `total` rows
Paginate(page, limit, total) ==
    /\ last' = [op |-> "paginate", page |-> page, limit |-> limit,
                result |-> paginate([page |-> page, limit |-> limit], total)]
    /\ UNCHANGED <<engagement, settings, users, vehicles, transactions, commissions,
                   cache, clock, requests>>

NextPaginate ==
    \E page \in PageParams, limit \in LimitParams, total \in Totals :
        Paginate(page, limit, total)

SpecPaginate == InitResolver /\ [][NextPaginate]_vars

\* ================================================================== claims
\* The transaction and the vehicle of the last lifecycle call, as they are now.
LastTx == transactions[last.id]
LastVehicle == vehicles[transactions[last.id].vehicle_id]

\* C2: complete() on a transaction that is pending, cancelled or completed is
\* rejected: the transaction keeps its status and the vehicle row is untouched.
C2_CompleteOnlyFromProcessing ==
    (last.op = "complete" /\ last.status # "processing")
        => /\ LastTx.status = last.status
           /\ LastVehicle = last.vehicle

\* C3: cancel(reason) on a pending or processing transaction leaves it cancelled
\* with cancelled_at set and the reason stored as given, and leaves the vehicle
\* available whatever its status was.
C3_CancelResetsVehicle ==
    (last.op = "cancel" /\ last.status \in {"pending", "processing"})
        => /\ LastTx.status = "cancelled"
           /\ LastTx.cancelled_at # NULL
           /\ LastTx.cancelled_reason = last.arg
           /\ LastVehicle.status = "available"

\* C3 happens: a processing transaction whose vehicle was sold has been cancelled.
C3_Witness ==
    /\ last.op = "cancel"
    /\ last.status = "processing"
    /\ last.vehicle.status = "sold"
    /\ last.arg = "buyer withdrew"
    /\ LastTx.status = "cancelled"
    /\ LastTx.cancelled_reason = "buyer withdrew"
    /\ LastVehicle.status = "available"

\* C4: no vehicle has two transactions that are pending or processing.
C4_OneActiveTransactionPerListing ==
    \A v \in VehicleIds :
        Cardinality({t \in DOMAIN transactions :
                        /\ transactions[t].vehicle_id = v
                        /\ transactions[t].status \in {"pending", "processing"}}) <= 1

\* C5: a transaction that is completed or cancelled keeps that status in every
\* later step.
C5_TerminalStatusesStay ==
    [][\A t \in DOMAIN transactions :
          transactions[t].status \in {"completed", "cancelled"}
              => transactions'[t].status = transactions[t].status]_vars

\* C6: complete(paymentReference) on a processing transaction leaves it completed
\* with completed_at set and the reference stored, and leaves the vehicle sold
\* with sold_at set.
C6_CompleteSellsVehicle ==
    (last.op = "complete" /\ last.status = "processing")
        => /\ LastTx.status = "completed"
           /\ LastTx.completed_at # NULL
           /\ LastTx.payment_reference = last.arg
           /\ LastVehicle.status = "sold"
           /\ LastVehicle.sold_at # NULL

\* C6 happens: a processing transaction on an available, never sold vehicle has
\* been completed with "ref-2".
C6_Witness ==
    /\ last.op = "complete"
    /\ last.status = "processing"
    /\ last.vehicle = [status |-> "available", sold_at |-> NULL]
    /\ last.arg = "ref-2"
    /\ LastTx.status = "completed"
    /\ LastTx.payment_reference = "ref-2"
    /\ LastVehicle = [status |-> "sold", sold_at |-> Now]

\* C7: once a processing transaction has been completed, the commissions table
\* holds a row for it whose commission_setting_id is the id of a rule the
\* resolver selects for its price and its seller's role (none for the fallback).
C7_CommissionPersistedOnComplete ==
    (last.op = "complete" /\ last.status = "processing")
        => \E i \in DOMAIN commissions :
              /\ commissions[i].transaction_id = last.id
              /\ commissions[i].commission_setting_id \in
                    {c.settingId :
                        c \in calculateCommission(settings, LastTx.price,
                                                  users[LastTx.seller_id].role)}

\* ------------------------------------------------- claims on the resolver
\* A rule's price bounds contain the price: an absent bound is unbounded.
BoundsContain(s, price) ==
    /\ s.min_price = None \/ price >= The(s.min_price)
    /\ s.max_price = None \/ price <= The(s.max_price)

\* The active rules whose price bounds and role constraint hold.
Matching(price, role) ==
    {s \in settings :
        /\ s.is_active
        /\ BoundsContain(s, price)
        /\ s.user_role = NULL \/ s.user_role = role}

\* r comes before s: higher priority, or equal priority and created earlier.
ComesBefore(r, s) ==
    \/ r.priority > s.priority
    \/ r.priority = s.priority /\ r.created_at < s.created_at

\* The result is the fallback: 5% of the price, percentage 5, no rule id.
IsFallback(result, price) ==
    /\ result.amount.k = "fin"
    /\ result.amount.n * 100 = 5 * price * result.amount.d
    /\ result.percentage = Num(5)
    /\ result.settingId = None

\* C1: findApplicable returns the matching rule that comes first by priority
\* descending and created_at ascending; when no rule matches it returns nothing
\* and calculateCommission returns the fallback.
C1_ResolverPicksFirstMatchingRule ==
    last.op = "calculateCommission"
        => IF Matching(last.price, last.role) = {}
           THEN last.found = None /\ IsFallback(last.result, last.price)
           ELSE /\ last.found # None
                /\ The(last.found) \in Matching(last.price, last.role)
                /\ \A s \in Matching(last.price, last.role) :
                      ~ComesBefore(s, The(last.found))

\* C8: the fee of a percentage rule is price * value / 100 and the fee of a
\* fixed rule is its value, from calculateCommission and from calculateAmount.
FeeOf(s, price, amount) ==
    /\ amount.k = "fin"
    /\ s.type = "percentage" => amount.n * 100 = price * s.value * amount.d
    /\ s.type = "fixed" => amount.n = s.value * amount.d

C8_FeeAmount ==
    /\ (last.op = "calculateCommission" /\ last.found # None)
          => FeeOf(The(last.found), last.price, last.result.amount)
    /\ last.op = "calculateAmount"
          => FeeOf(last.setting, last.price, last.amount)

\* C8 happens: a fixed rule of 500 won for the price 20000 and the fee is 500.
C8_Witness ==
    /\ last.op = "calculateCommission"
    /\ last.price = 20000
    /\ last.found # None
    /\ The(last.found).type = "fixed"
    /\ The(last.found).value = 500
    /\ last.result.amount = Num(500)

\* C9: when no active rule applies to the price and the seller role, the result
\* is 5% of the price with percentage 5 and no rule id; with no rules at all and
\* the price 10000 the amount is 500.
C9_FallbackWhenNoRuleApplies ==
    /\ (last.op = "calculateCommission" /\ Matching(last.price, last.role) = {})
          => IsFallback(last.result, last.price)
    /\ (last.op = "calculateCommission" /\ settings = {} /\ last.price = 10000)
          => last.result.amount = Num(500)

\* The rule table of the scenario: a dealer rule of 3% at priority 10 and a rule
\* for every role of 5% at priority 0, both active and without price bounds.
IsDealerRule(s) ==
    /\ s.priority = 10 /\ s.user_role = "dealer"
    /\ s.type = "percentage" /\ s.value = 3
    /\ s.is_active /\ s.min_price = None /\ s.max_price = None
IsStandardRule(s) ==
    /\ s.priority = 0 /\ s.user_role = NULL
    /\ s.type = "percentage" /\ s.value = 5
    /\ s.is_active /\ s.min_price = None /\ s.max_price = None
ScenarioTable ==
    \E a, b \in settings : settings = {a, b} /\ IsDealerRule(a) /\ IsStandardRule(b)

\* C10: on the scenario's table and the price 20000, a dealer gets amount 600 and
\* percentage 3 through the priority-10 rule, a buyer gets amount 1000 and
\* percentage 5 through the priority-0 rule.
C10_DealerScenario ==
    (ScenarioTable /\ last.op = "calculateCommission" /\ last.price = 20000)
        => /\ last.role = "dealer"
              => /\ last.result.amount = Num(600)
                 /\ last.result.percentage = Num(3)
                 /\ \E a \in settings : IsDealerRule(a) /\ last.result.settingId = {a.id}
           /\ last.role = "buyer"
              => /\ last.result.amount = Num(1000)
                 /\ last.result.percentage = Num(5)
                 /\ \E b \in settings : IsStandardRule(b) /\ last.result.settingId = {b.id}

\* C10 happens: on the scenario's table a buyer's sale of 20000 fell through to
\* the priority-0 rule.
C10_Witness ==
    /\ ScenarioTable
    /\ last.op = "calculateCommission"
    /\ last.price = 20000
    /\ last.role = "buyer"
    /\ last.result.amount = Num(1000)
    /\ last.result.percentage = Num(5)

C13_OneCommissionPerTransaction ==
    \A i, j \in DOMAIN commissions :
        commissions[i].transaction_id = commissions[j].transaction_id => i = j

\* The writes to a user's row
UserWrites == {"updateLastLogin", "patchIsActive"}

\* C14: after every write to a user's row the key user:<id> is gone from the
\* cache, and a key that is set has at most the time-to-live of 300 s left.
C14_UserCacheInvalidatedOnWrite ==
    /\ last.op \in UserWrites => cacheGet(cache, last.id, clock) = None
    /\ \A u \in UserIds :
          cache.user[u] # None => The(cache.user[u]).expires <= clock + UserCacheTTL

\* The columns that must not leave the server
SensitiveFields == {"password", "password_hash", "two_factor_secret"}

\* C15: the JSON of a user has none of password, password_hash and
\* two_factor_secret, whether it is the result of toJSON() or the value that
\* authMiddleware has stored under user:<id>.
C15_NoSensitiveFieldInJson ==
    /\ last.op = "toJSON" => DOMAIN last.json \cap SensitiveFields = {}
    /\ \A u \in UserIds :
          cache.user[u] # None
              => DOMAIN The(cache.user[u]).value \cap SensitiveFields = {}

\* C15 happens: authMiddleware has just cached the dealer, whose row holds a
\* password hash and a two-factor secret, and the cached value has the other
\* columns.
C15_Witness ==
    /\ last.op = "authMiddleware" /\ ~last.hit /\ last.outcome = "next"
    /\ users[last.id].two_factor_secret = "totp-secret"
    /\ users[last.id].password_hash = "bcrypt-hash"
    /\ cache.user[last.id] # None
    /\ DOMAIN The(cache.user[last.id]).value =
          {"role", "is_active", "last_login_at", "created_at"}
    /\ The(cache.user[last.id]).value.created_at = toISOString(DateAt(0))

\* C16: paginate uses the page asked for when it is at least 1 and page 1
\* otherwise; the limit asked for clamped into 1..100, and 20 when it is absent
\* or 0; totalPages is the least n with n * limit >= total; hasNextPage is
\* page < totalPages and hasPreviousPage is page > 1.
C16_PaginateBounds ==
    last.op = "paginate"
        => LET r == last.result
               asked == last.page.k = "int" /\ last.page.n >= 1
               sized == last.limit.k = "int" /\ last.limit.n # 0
           IN /\ r.page >= 1
              /\ r.page = IF asked THEN last.page.n ELSE 1
              /\ r.limit \in 1..100
              /\ ~sized => r.limit = 20
              /\ (sized /\ last.limit.n \in 1..100) => r.limit = last.limit.n
              /\ r.totalPages * r.limit >= r.total
              /\ (r.totalPages - 1) * r.limit < r.total \/ (r.total = 0 /\ r.totalPages = 0)
              /\ r.hasNextPage <=> r.page < r.totalPages
              /\ r.hasPreviousPage <=> r.page > 1

\* C16 happens: 150 rows at 20 a page make 8 pages, and the page asked for,
\* the 8th, is the last one.
C16_Witness ==
    /\ last.op = "paginate"
    /\ last.page = IntParam(8) /\ last.limit = Absent
    /\ last.result.total = 150
    /\ last.result.limit = 20
    /\ last.result.totalPages = 8
    /\ ~last.result.hasNextPage
    /\ last.result.hasPreviousPage

\* C17: appliesToPrice(p) is true exactly when p is at or above min_price, or
\* min_price is absent, and p is at or below max_price, or max_price is absent:
\* a bound of 0 is a bound like any other.
C17_AppliesToPriceWithinBounds ==
    last.op = "appliesToPrice"
        => (last.result <=> BoundsContain(last.setting, last.price))

\* C18: a vehicle that has a completed transaction is sold; so it is after
\* cancel() of another transaction of that vehicle that was pending or
\* processing.
C18_CompletedMeansSold ==
    \A t \in DOMAIN transactions :
        transactions[t].status = "completed"
            => vehicles[transactions[t].vehicle_id].status = "sold"

\* ------------------------------------------- claims on interleaved calls
\* A request that has written (or is about to write) as a cancel() does.
Cancelling(r) == requests[r].op = "cancel" /\ requests[r].pc # "rejected"

\* C19: once two complete() calls on two transactions of one vehicle, both
\* processing when the calls began, have finished, in whatever order their
\* writes came and with no cancel() among the calls, both transactions are
\* completed and the vehicle is sold.
C19_BothCompletionsSucceed ==
    \A r1, r2 \in DOMAIN requests :
        (/\ requests[r1].op = "complete" /\ requests[r2].op = "complete"
         /\ requests[r1].status = "processing" /\ requests[r2].status = "processing"
         /\ requests[r1].pc = "done" /\ requests[r2].pc = "done"
         /\ requests[r1].id # requests[r2].id
         /\ requests[r1].vehicle_id = requests[r2].vehicle_id
         /\ \A r \in DOMAIN requests : ~Cancelling(r))
            => /\ transactions[requests[r1].id].status = "completed"
               /\ transactions[requests[r2].id].status = "completed"
               /\ vehicles[requests[r1].vehicle_id].status = "sold"

\* C19 happens: two calls on the two processing transactions of vehicle 1 have
\* finished, the second one's vehicle write before the first one's; both
\* transactions are completed and the vehicle is sold.
C19_Witness ==
    /\ Len(requests) = 2
    /\ requests[1].op = "complete" /\ requests[2].op = "complete"
    /\ requests[1].id = 1 /\ requests[2].id = 2
    /\ requests[1].status = "processing" /\ requests[2].status = "processing"
    /\ requests[1].pc = "done" /\ requests[2].pc = "done"
    /\ last.transaction[2] = 2 /\ last.vehicle[1] = 1
    /\ transactions[1].status = "completed" /\ transactions[2].status = "completed"
    /\ vehicles[1] = [status |-> "sold", sold_at |-> Now]

\* The row a request's first write leaves, and the vehicle status its second.
WrittenBy(r, row) ==
    IF requests[r].op = "complete"
    THEN row.status = "completed" /\ row.payment_reference = requests[r].arg
    ELSE row.status = "cancelled" /\ row.cancelled_reason = requests[r].arg
VehicleStatusOf(r) == IF requests[r].op = "complete" THEN "sold" ELSE "available"

\* C20: every write of a request that read its guard true takes effect, whatever
\* other requests have written since: a transaction row is as the last request
\* to write it left it, and a vehicle's status is the one the last request to
\* write the vehicle set.
C20_GuardsAreAdvisory ==
    /\ \A t \in DOMAIN transactions :
          last.transaction[t] # 0 => WrittenBy(last.transaction[t], transactions[t])
    /\ \A v \in VehicleIds :
          last.vehicle[v] # 0 => vehicles[v].status = VehicleStatusOf(last.vehicle[v])

\* C20 happens: two requests read the guards true on the same processing
\* transaction; the first completed it, the second then cancelled it, and the
\* transaction is cancelled and its vehicle available.
C20_Witness ==
    /\ Len(requests) = 2
    /\ requests[1].id = requests[2].id
    /\ requests[1].status = "processing" /\ requests[2].status = "processing"
    /\ requests[1].op = "complete" /\ requests[2].op = "cancel"
    /\ requests[1].pc = "done" /\ requests[2].pc = "done"
    /\ last.transaction[requests[1].id] = 2
    /\ last.vehicle[requests[1].vehicle_id] = 2
    /\ transactions[requests[1].id].status = "cancelled"
    /\ transactions[requests[1].id].completed_at = Now
    /\ vehicles[requests[1].vehicle_id] = [status |-> "available", sold_at |-> Now]

\* C21: when the second write of complete() or cancel() fails, the first write
\* stays: as long as no other request has written the row since, the
\* transaction is completed (or cancelled) as the failed request wrote it, and
\* the request has not written the vehicle, which, if no request has written
\* it, is as it was listed.
C21_FirstWriteStaysWhenSecondFails ==
    \A r \in DOMAIN requests :
        requests[r].pc = "failedSecond"
            => /\ last.transaction[requests[r].id] = r
                    => WrittenBy(r, transactions[requests[r].id])
               /\ last.vehicle[requests[r].vehicle_id] # r
               /\ last.vehicle[requests[r].vehicle_id] = 0
                    => vehicles[requests[r].vehicle_id] =
                          [status |-> "available", sold_at |-> NULL]

\* C21 happens: the vehicle write of a complete() failed, and the transaction
\* is completed while its vehicle is still available and has no sold_at.
C21_Witness ==
    /\ Len(requests) = 1
    /\ requests[1].op = "complete"
    /\ requests[1].status = "processing"
    /\ requests[1].pc = "failedSecond"
    /\ transactions[requests[1].id].status = "completed"
    /\ transactions[requests[1].id].completed_at = Now
    /\ vehicles[requests[1].vehicle_id] = [status |-> "available", sold_at |-> NULL]

\* C22: a transaction just inserted is pending, and whatever process(),
\* complete() and cancel() calls have been made, every transaction's status is
\* pending, processing, completed or cancelled, never refunded.
C22_StatusesOfTheLifecycle ==
    /\ last.op = "insertTransaction" => transactions[last.id].status = "pending"
    /\ \A t \in DOMAIN transactions :
          /\ transactions[t].status \in TransactionStatus \ {"refunded"}
          /\ transactions[t].status \in
                {"pending", "processing", "completed", "cancelled"}

\* C22 happens: a completed transaction has been cancelled, and its status is
\* cancelled.
C22_Witness ==
    /\ last.op = "cancel"
    /\ last.status = "completed"
    /\ LastTx.status = "cancelled"
    /\ LastTx.completed_at = Now

\* C23: for a price above 0, the percentage calculateCommission returns is the
\* value of the winning rule when the rule is a percentage, and amount / price
\* * 100 when it is a fixed fee.
C23_PercentageReported ==
    (last.op = "calculateCommission" /\ last.found # None /\ last.price > 0)
        => LET s == The(last.found)
               pct == last.result.percentage
               amount == last.result.amount
           IN /\ pct.k = "fin"
              /\ s.type = "percentage" => pct.n = s.value * pct.d
              /\ s.type = "fixed"
                    => pct.n * last.price * amount.d = amount.n * 100 * pct.d

\* C23 happens: a fixed fee of 500 won for the price 20000 and the percentage
\* reported is 2.5.
C23_Witness ==
    /\ last.op = "calculateCommission"
    /\ last.price = 20000
    /\ last.found # None
    /\ The(last.found).type = "fixed"
    /\ last.result.amount = Num(500)
    /\ last.result.percentage = Fin(5, 2)

\* C24: calculateCommission raises nothing for a price of 0: with a fixed rule
\* it divides by zero, still returns the rule's amount, and the percentage it
\* returns is not a finite number.
C24_ZeroPriceNotFinite ==
    (/\ last.op = "calculateCommission"
     /\ last.price = 0
     /\ last.found # None
     /\ The(last.found).type = "fixed")
        => /\ last.result.amount = Num(The(last.found).value)
           /\ last.result.percentage.k \in {"inf", "nan"}
           /\ last.result.percentage.k = "nan" <=> The(last.found).value = 0

\* C24 happens: a fixed fee of 500 won for the price 0 and the percentage is
\* Infinity.
C24_Witness ==
    /\ last.op = "calculateCommission"
    /\ last.price = 0
    /\ last.found # None
    /\ The(last.found).type = "fixed"
    /\ The(last.found).value = 500
    /\ last.result.percentage = Infinity

\* C25: createForTransaction on a transaction that exists computes a
\* percentage from 0 to 100, so its insert passes the schema of Commission and
\* the row is written.
C25_InsertAlwaysSucceeds ==
    (last.op = "createForTransaction" /\ last.id \in DOMAIN transactions)
        => /\ last.error = NULL
           /\ validCommission(last.row)
           /\ commissions # <<>>
           /\ commissions[Len(commissions)] = last.row

\* C26: appliesToRole(role) is true exactly when the rule has no user_role or
\* its user_role is the role passed; a rule for a role never applies when no
\* role is passed.
C26_AppliesToRoleExactly ==
    last.op = "appliesToRole"
        => /\ last.result = TRUE
                <=> (last.setting.user_role = NULL \/ last.setting.user_role = last.role)
           /\ (last.setting.user_role # NULL /\ last.role = NULL) => last.result = FALSE

\* C26 happens: a rule for dealers was asked about an absent role and does not
\* apply.
C26_Witness ==
    /\ last.op = "appliesToRole"
    /\ last.setting.user_role = "dealer"
    /\ last.role = NULL
    /\ last.result = FALSE

\* The columns of a commission that paying it leaves alone
Unpaid(row) ==
    [row EXCEPT !.is_paid = FALSE, !.paid_at = NULL, !.payment_reference = NULL]
\* A row as it is once paid with the reference
PaidWith(row, ref) ==
    /\ row.is_paid = TRUE
    /\ row.paid_at = Now
    /\ row.payment_reference = ref

\* C27: markAsPaid and payBatch change only is_paid, paid_at and
\* payment_reference; payBatch changes only the rows of its id list that are
\* still unpaid and returns how many it changed; no call sets is_paid back to
\* false.
C27_PayingChangesPaymentOnly ==
    [][/\ Len(commissions') >= Len(commissions)
       /\ \A i \in DOMAIN commissions :
             /\ commissions[i].is_paid => commissions'[i].is_paid
             /\ Unpaid(commissions'[i]) = Unpaid(commissions[i])
             /\ last'.op = "markAsPaid"
                   => IF i = last'.id
                      THEN PaidWith(commissions'[i], last'.ref)
                      ELSE commissions'[i] = commissions[i]
             /\ last'.op = "payBatch"
                   => IF i \in last'.ids /\ ~commissions[i].is_paid
                      THEN PaidWith(commissions'[i], last'.ref)
                      ELSE commissions'[i] = commissions[i]
       /\ last'.op = "payBatch"
             => last'.count = Cardinality({i \in DOMAIN commissions :
                                            commissions'[i] # commissions[i]})]_vars

\* C27 happens: payBatch was given a paid and an unpaid commission, changed the
\* unpaid one and returned 1; the paid one keeps its reference.
C27_Witness ==
    /\ last.op = "payBatch"
    /\ last.ids = {1, 2}
    /\ last.ref = "ref-2"
    /\ last.count = 1
    /\ Len(commissions) = 2
    /\ PaidWith(commissions[1], "ref-1")
    /\ PaidWith(commissions[2], "ref-2")

\* C28: in every conversation buyer_unread_count is the number of unread
\* messages the seller sent and seller_unread_count the number of unread
\* messages the buyer sent.
C28_UnreadCountersMatch ==
    \A c \in DOMAIN conversations :
        /\ conversations[c].buyer_unread_count =
              Cardinality({m \in DOMAIN messages :
                              /\ messages[m].conversation_id = c
                              /\ messages[m].sender_id = conversations[c].seller_id
                              /\ ~messages[m].is_read})
        /\ conversations[c].seller_unread_count =
              Cardinality({m \in DOMAIN messages :
                              /\ messages[m].conversation_id = c
                              /\ messages[m].sender_id = conversations[c].buyer_id
                              /\ ~messages[m].is_read})

\* C29: whenever no call of toggle is in flight, favorites_count of each
\* vehicle is the number of rows of favorites for it and is not negative, and
\* no two rows of favorites have the same user and vehicle.
C29_FavoritesCountMatches ==
    (\A r \in DOMAIN requests : requests[r].pc \in {"done", "failed"})
        => /\ \A v \in VehicleIds :
                 /\ favorites_count[v] = Cardinality({f \in favorites : f.vehicle_id = v})
                 /\ favorites_count[v] >= 0
           /\ \A f, g \in favorites :
                 (f.user_id = g.user_id /\ f.vehicle_id = g.vehicle_id) => f = g

\* C30: authMiddleware calls next() without an error only for a request whose
\* Authorization header is a Bearer token that is not in blacklisted_tokens,
\* verifies, and names a row of users whose is_active is true; in particular
\* never for a token of blacklisted_tokens, whether or not the lookup of the
\* set is answered.
C30_BlacklistedNeverPasses ==
    (last.op = "authMiddleware" /\ last.outcome = "next")
        => /\ last.scheme = "Bearer"
           /\ last.token \notin cache.blacklisted_tokens
           /\ last.token.verifies
           /\ last.id \in DOMAIN users
           /\ users[last.id].is_active

====
